---- MODULE Spec2Model ----
(***************************************************************************)
(* Model of the enforcement layer: the GuardrailOrchestrator pipeline       *)
(* (coordinate and the bus handlers), the PostExecutionLayer audit with     *)
(* its remediation trigger, and the AnomalyDetectionEngine mitigation       *)
(* policy.                                                                  *)
(*                                                                          *)
(* Every asynchronous task is cut at its awaits: one action is the code a   *)
(* task runs between two suspension points, together with every handler    *)
(* the bus invokes synchronously while it runs.                             *)
(***************************************************************************)
EXTENDS Integers, Sequences, FiniteSets, TLC

\* ------------------------------------------------------------------ bounds
\* Number of coordinate calls made on the orchestrator.
MaxCalls == 2
\* Largest value of the millisecond clock read by Date.now(). Calls are made
\* before the clock reaches it, so that their execution wait can end.
MaxClock == 2
\* Number of violation events published by the in-process stage and by other
\* users of the process-wide bus (the audit's own event is not counted).
MaxViolationEvents == 1

Calls == 1..MaxCalls
\* "act-<ms>": an actionId is identified with the clock value it was built from.
ActionIds == 0..MaxClock

VARIABLES
    clock,            \* Date.now(), in milliseconds
    pc,               \* position of each coordinate call
    ctx,              \* the ActionContext object each call allocated
    activeActions,    \* Map<string, ActionContext>: actionId -> context (its call)
    pending,          \* interventionLayer.process invocations still running, per context
    published,        \* events emitted with each context as payload, in order
    statusLog,        \* every value written to context.status, in order
    stageLog,         \* the stages coordinate invoked on each context, in order
    auditSeen,        \* context.violations as the audit found them
    dropped,          \* actionIds of violation events whose lookup found no context
    violationEvents,  \* violation events published so far by stages and bus users
    thresholds,       \* AnomalyDetectionEngine.thresholds
    score,            \* the score last resolved
    decision,         \* what resolveAction returned for it
    request,          \* the arguments of evaluate: context, step and policy
    predicted,        \* the predicted BehaviorVector of the evaluation
    live              \* the live BehaviorVector of the evaluation

orchVars == <<clock, pc, ctx, activeActions, pending, published, statusLog,
              stageLog, auditSeen, dropped, violationEvents>>
scorerVars == <<request, predicted, live>>
engineVars == <<thresholds, score, decision, scorerVars>>
vars == <<clock, pc, ctx, activeActions, pending, published, statusLog,
          stageLog, auditSeen, dropped, violationEvents, thresholds, score, decision,
          request, predicted, live>>

\* ------------------------------------------------------------- data model
Severities == {"LOW", "MEDIUM", "HIGH", "CRITICAL"}

\* Violations the monitoring stages and other publishers raise.
MonitorViolations ==
    { [id |-> <<"v-mon", 1>>, severity |-> "HIGH"],
      [id |-> <<"v-mon", 2>>, severity |-> "CRITICAL"] }

\* The slot of a call that has not been made yet: no context object exists.
NoContext ==
    [ actionId |-> -1, startTime |-> -1, status |-> "NONE", violations |-> <<>>,
      interventions |-> 0, endTime |-> -1, remediationReport |-> FALSE,
      invalidResult |-> FALSE ]

\* The context literal of coordinate.
NewContext(now, invalidResult) ==
    [ actionId |-> now, startTime |-> now, status |-> "PENDING", violations |-> <<>>,
      interventions |-> 0, endTime |-> -1, remediationReport |-> FALSE,
      invalidResult |-> invalidResult ]

\* Map.set / Map.delete on activeActions.
MapSet(m, k, v) == [x \in DOMAIN m \cup {k} |-> IF x = k THEN v ELSE m[x]]
MapDelete(m, k) == [x \in DOMAIN m \ {k} |-> m[x]]

\* The mutable objects one synchronous run of code reads and writes.
World ==
    [ ctx |-> ctx, activeActions |-> activeActions, pending |-> pending,
      published |-> published, statusLog |-> statusLog, dropped |-> dropped ]

Commit(w) ==
    /\ ctx' = w.ctx
    /\ activeActions' = w.activeActions
    /\ pending' = w.pending
    /\ published' = w.published
    /\ statusLog' = w.statusLog
    /\ dropped' = w.dropped

\* context.status = s
setStatus(w, c, s) ==
    [w EXCEPT !.ctx[c].status = s, !.statusLog[c] = Append(@, s)]

\* eventBus.emit(name, context): delivered synchronously; the entry keeps
\* whether the payload carried a remediation report when it was published.
emit(w, name, c) ==
    [w EXCEPT !.published[c] =
        Append(@, [name |-> name, report |-> w.ctx[c].remediationReport])]

\* A duplicate test that never finds the id.
HasViolationIdNever(violations, id) == FALSE

\* context.violations.find(v => v.id === violation.id)
HasViolationId(violations, id) ==
    \E i \in 1..Len(violations) : violations[i].id = id

\* interventionLayer.process(context): the call is started by the handler
\* and completes in a later step (InterventionDone).
interventionStart(w, c) == [w EXCEPT !.pending[c] = @ + 1]

\* A handler that finds the context by the actionId it carries instead of
\* looking it up in the active-action set.
OnViolationDetectedByScan(w, actionId, violation) ==
    IF \E c \in DOMAIN w.ctx : w.ctx[c].actionId = actionId
    THEN LET c == CHOOSE d \in DOMAIN w.ctx : w.ctx[d].actionId = actionId
             w1 == IF HasViolationId(w.ctx[c].violations, violation.id)
                   THEN w
                   ELSE [w EXCEPT !.ctx[c].violations = Append(@, violation)]
         IN interventionStart(w1, c)
    ELSE [w EXCEPT !.dropped = @ \cup {actionId}]

\* A handler that starts a remediation of its own for a CRITICAL violation.
OnViolationDetectedRemediates(w, actionId, violation) ==
    IF actionId \in DOMAIN w.activeActions
    THEN LET c == w.activeActions[actionId]
             w1 == IF HasViolationId(w.ctx[c].violations, violation.id)
                   THEN w
                   ELSE [w EXCEPT !.ctx[c].violations = Append(@, violation)]
             w2 == interventionStart(w1, c)
         IN IF violation.severity = "CRITICAL"
            THEN emit(w2, "REMEDIATION_TRIGGERED", c)
            ELSE w2
    ELSE [w EXCEPT !.dropped = @ \cup {actionId}]

\* A handler that suspends the action on a CRITICAL violation.
OnViolationDetectedSuspends(w, actionId, violation) ==
    IF actionId \in DOMAIN w.activeActions
    THEN LET c == w.activeActions[actionId]
             w1 == IF HasViolationId(w.ctx[c].violations, violation.id)
                   THEN w
                   ELSE [w EXCEPT !.ctx[c].violations = Append(@, violation)]
             w2 == interventionStart(w1, c)
         IN IF violation.severity = "CRITICAL"
            THEN setStatus(w2, c, "SUSPENDED")
            ELSE w2
    ELSE [w EXCEPT !.dropped = @ \cup {actionId}]

\* A handler whose intervention has completed by the time it returns to
\* the publisher.
OnViolationDetectedBlocking(w, actionId, violation) ==
    IF actionId \in DOMAIN w.activeActions
    THEN LET c == w.activeActions[actionId]
             w1 == IF HasViolationId(w.ctx[c].violations, violation.id)
                   THEN w
                   ELSE [w EXCEPT !.ctx[c].violations = Append(@, violation)]
         IN [w1 EXCEPT !.ctx[c].interventions = @ + 1]
    ELSE [w EXCEPT !.dropped = @ \cup {actionId}]

\* The VIOLATION_DETECTED handler, up to its await.
OnViolationDetected(w, actionId, violation) ==
    IF actionId \in DOMAIN w.activeActions
    THEN LET c == w.activeActions[actionId]
             w1 == IF HasViolationId(w.ctx[c].violations, violation.id)
                   THEN w
                   ELSE [w EXCEPT !.ctx[c].violations = Append(@, violation)]
         IN interventionStart(w1, c)
    ELSE [w EXCEPT !.dropped = @ \cup {actionId}]

\* eventBus.emitViolation(actionId, violation)
emitViolation(w, actionId, violation) == OnViolationDetected(w, actionId, violation)


\* ------------------------------------------------- post-execution auditor
\* An audit that also counts HIGH violations as disqualifying.
hasHighOrCriticalViolation(violations) ==
    \E i \in 1..Len(violations) : violations[i].severity \in {"HIGH", "CRITICAL"}

\* context.violations.some(v => v.severity === CRITICAL)
hasCriticalViolation(violations) ==
    \E i \in 1..Len(violations) : violations[i].severity = "CRITICAL"

\* hasCriticalViolation || context.params.invalidResult
auditFails(cx) == hasCriticalViolation(cx.violations) \/ cx.invalidResult

\* The violation the audit synthesizes: id `v-post-${Date.now()}`, CRITICAL.
postViolation(now) == [id |-> <<"v-post", now>>, severity |-> "CRITICAL"]

\* RemediationEngine.remediate(context), at its completion: the report it
\* produced is on the context once the call has returned.
remediate(w, c) == [w EXCEPT !.ctx[c].remediationReport = TRUE]

\* A trigger that does not await the engine before announcing completion.
triggerRemediationNoAwait(w, c) ==
    emit(emit(w, "REMEDIATION_TRIGGERED", c), "REMEDIATION_COMPLETED", c)

\* triggerRemediation up to its await: announce, then call the engine.
triggerRemediationStart(w, c) == emit(w, "REMEDIATION_TRIGGERED", c)

\* triggerRemediation after its await.
triggerRemediationResume(w, c) == emit(w, "REMEDIATION_COMPLETED", c)

\* An audit that triggers remediation before it publishes its violation.
postExecutionProcessRemediatesFirst(w, c, now) ==
    LET w1 == emit(w, "AUDIT_STARTED", c)
    IN IF auditFails(w1.ctx[c])
       THEN LET violation == postViolation(now)
                w2 == [w1 EXCEPT !.ctx[c].violations = Append(@, violation)]
                w3 == setStatus(w2, c, "AUDIT_FAILED")
                w4 == emit(w3, "REMEDIATION_TRIGGERED", c)
                w5 == emit(w4, "VIOLATION_DETECTED", c)
            IN emitViolation(w5, w5.ctx[c].actionId, violation)
       ELSE emit(setStatus(w1, c, "AUDIT_PASSED"), "AUDIT_COMPLETED", c)

\* PostExecutionLayer.process up to its first suspension.
postExecutionProcess(w, c, now) ==
    LET w1 == emit(w, "AUDIT_STARTED", c)
    IN IF auditFails(w1.ctx[c])
       THEN LET violation == postViolation(now)
                w2 == [w1 EXCEPT !.ctx[c].violations = Append(@, violation)]
                w3 == setStatus(w2, c, "AUDIT_FAILED")
                w4 == emit(w3, "VIOLATION_DETECTED", c)
                w5 == emitViolation(w4, w4.ctx[c].actionId, violation)
            IN triggerRemediationStart(w5, c)
       ELSE emit(setStatus(w1, c, "AUDIT_PASSED"), "AUDIT_COMPLETED", c)

\* PostExecutionLayer.process after the remediation call returned.
postExecutionResume(w, c) ==
    emit(triggerRemediationResume(remediate(w, c), c), "AUDIT_COMPLETED", c)

\* ------------------------------------------------------------ orchestrator
\* Early-return tests that compare against the wrong state.
PreExecutionFailedWrongState(cx) == cx.status = "SUSPENDED"
InProcessSuspendedWrongState(cx) == cx.status = "PRE_EXECUTION_FAILED"

\* A cleanup that leaves the entry in place.
ExitWithoutCleanup(w, actionId) == w

\* context.status === EnforcementState.PRE_EXECUTION_FAILED
PreExecutionFailed(cx) == cx.status = "PRE_EXECUTION_FAILED"

\* context.status === EnforcementState.SUSPENDED
InProcessSuspended(cx) == cx.status = "SUSPENDED"

\* finally { this.activeActions.delete(actionId) }
ExitCleanup(w, actionId) == [w EXCEPT !.activeActions = MapDelete(@, actionId)]

\* The pre-execution stage: it leaves the context as it is or marks it failed.
preExecutionProcess(w, c, outcome) ==
    IF outcome = "fail" THEN setStatus(w, c, "PRE_EXECUTION_FAILED") ELSE w

\* The in-process stage: it leaves the status as it is or suspends the action.
inProcessProcess(w, c, outcome) ==
    IF outcome = "suspend" THEN setStatus(w, c, "SUSPENDED") ELSE w

Finished == {"returned", "failed"}
InFlight(c) == pc[c] \notin Finished \cup {"idle"}

\* A timer that never resolves its promise.
ExecutionWaitNeverOver(now, cx) == FALSE

\* await new Promise(resolve => setTimeout(resolve, 500)): the wait is over
\* at a later reading of the clock than the one the call started at.
ExecutionWaitOver(now, cx) == now > cx.startTime

\* A completion that does not stamp the end time.
completeActionWithoutStamp(w, c, now) ==
    emit(setStatus(w, c, "COMPLETED"), "ACTION_COMPLETED", c)

\* context.endTime = Date.now(); context.status = COMPLETED; emit.
completeAction(w, c, now) ==
    LET w1 == [w EXCEPT !.ctx[c].endTime = now]
    IN emit(setStatus(w1, c, "COMPLETED"), "ACTION_COMPLETED", c)

\* coordinate, from its call to the await of the pre-execution stage.
Coordinate(c, invalidResult) ==
    /\ pc[c] = "idle"
    /\ clock < MaxClock
    /\ \A d \in Calls : d < c => pc[d] # "idle"
    /\ LET actionId == clock
           w1 == [World EXCEPT !.ctx[c] = NewContext(clock, invalidResult),
                               !.statusLog[c] = <<"PENDING">>]
           w2 == [w1 EXCEPT !.activeActions = MapSet(@, actionId, c)]
       IN Commit(emit(w2, "ACTION_PROPOSED", c))
    /\ stageLog' = [stageLog EXCEPT ![c] = Append(@, "pre")]
    /\ pc' = [pc EXCEPT ![c] = "pre"]
    /\ UNCHANGED <<clock, auditSeen, violationEvents, engineVars>>

\* The pre-execution stage settles: early return, error, or on to in-process.
PreExecutionReturn(c, outcome) ==
    /\ pc[c] = "pre"
    /\ LET w1 == preExecutionProcess(World, c, outcome)
       IN IF outcome = "throw"
          THEN /\ Commit(ExitCleanup(w1, w1.ctx[c].actionId))
               /\ pc' = [pc EXCEPT ![c] = "failed"]
               /\ UNCHANGED stageLog
          ELSE IF PreExecutionFailed(w1.ctx[c])
          THEN /\ Commit(ExitCleanup(w1, w1.ctx[c].actionId))
               /\ pc' = [pc EXCEPT ![c] = "returned"]
               /\ UNCHANGED stageLog
          ELSE /\ Commit(w1)
               /\ pc' = [pc EXCEPT ![c] = "inproc"]
               /\ stageLog' = [stageLog EXCEPT ![c] = Append(@, "inproc")]
    /\ UNCHANGED <<clock, auditSeen, violationEvents, engineVars>>

\* The in-process stage publishes a violation for the action it monitors.
InProcessDetect(c, violation) ==
    /\ pc[c] = "inproc"
    /\ violationEvents < MaxViolationEvents
    /\ violationEvents' = violationEvents + 1
    /\ Commit(emitViolation(World, ctx[c].actionId, violation))
    /\ UNCHANGED <<clock, pc, stageLog, auditSeen, engineVars>>

\* The in-process stage settles: suspension, error, or the execution wait.
InProcessReturn(c, outcome) ==
    /\ pc[c] = "inproc"
    /\ LET w1 == inProcessProcess(World, c, outcome)
       IN IF outcome = "throw"
          THEN /\ Commit(ExitCleanup(w1, w1.ctx[c].actionId))
               /\ pc' = [pc EXCEPT ![c] = "failed"]
          ELSE IF InProcessSuspended(w1.ctx[c])
          THEN /\ Commit(ExitCleanup([w1 EXCEPT !.ctx[c].endTime = clock],
                                     w1.ctx[c].actionId))
               /\ pc' = [pc EXCEPT ![c] = "returned"]
          ELSE /\ Commit(w1)
               /\ pc' = [pc EXCEPT ![c] = "exec"]
    /\ UNCHANGED <<clock, stageLog, auditSeen, violationEvents, engineVars>>

\* The 500 ms timer fires: stamp, complete, and run the audit up to its
\* first suspension.
ExecutionDone(c) ==
    /\ pc[c] = "exec"
    /\ ExecutionWaitOver(clock, ctx[c])
    /\ LET w2 == completeAction(World, c, clock)
           w3 == postExecutionProcess(w2, c, clock)
       IN /\ Commit(w3)
          /\ pc' = [pc EXCEPT ![c] =
                       IF w3.ctx[c].status = "AUDIT_FAILED"
                       THEN "remediating" ELSE "audited"]
    /\ stageLog' = [stageLog EXCEPT ![c] = Append(@, "post")]
    /\ auditSeen' = [auditSeen EXCEPT ![c] = ctx[c].violations]
    /\ UNCHANGED <<clock, violationEvents, engineVars>>

\* The remediation call settles: the audit finishes, or the error unwinds
\* coordinate through its finally.
RemediationReturn(c, outcome) ==
    /\ pc[c] = "remediating"
    /\ IF outcome = "throw"
       THEN /\ Commit(ExitCleanup(World, ctx[c].actionId))
            /\ pc' = [pc EXCEPT ![c] = "failed"]
       ELSE /\ Commit(postExecutionResume(World, c))
            /\ pc' = [pc EXCEPT ![c] = "audited"]
    /\ UNCHANGED <<clock, stageLog, auditSeen, violationEvents, engineVars>>

\* coordinate resumes after the post-execution stage and returns.
CoordinateReturn(c) ==
    /\ pc[c] = "audited"
    /\ Commit(ExitCleanup(World, ctx[c].actionId))
    /\ pc' = [pc EXCEPT ![c] = "returned"]
    /\ UNCHANGED <<clock, stageLog, auditSeen, violationEvents, engineVars>>

\* Another user of the process-wide bus publishes a violation for any id.
PublishViolation(actionId, violation) ==
    /\ violationEvents < MaxViolationEvents
    /\ violationEvents' = violationEvents + 1
    /\ Commit(emitViolation(World, actionId, violation))
    /\ UNCHANGED <<clock, pc, stageLog, auditSeen, engineVars>>

\* An intervention started by the violation handler completes and records
\* the intervention it applied.
InterventionDone(c) ==
    /\ pending[c] > 0
    /\ pending' = [pending EXCEPT ![c] = @ - 1]
    /\ ctx' = [ctx EXCEPT ![c].interventions = @ + 1]
    /\ UNCHANGED <<clock, pc, activeActions, published, statusLog, stageLog,
                   auditSeen, dropped, violationEvents, engineVars>>

\* A millisecond passes.
Tick ==
    /\ clock < MaxClock
    /\ clock' = clock + 1
    /\ UNCHANGED <<pc, ctx, activeActions, pending, published, statusLog,
                   stageLog, auditSeen, dropped, violationEvents, engineVars>>


\* ------------------------------------------------ anomaly detection engine
\* Scores, thresholds and risks are counted in units of 1/720: One is 1.0,
\* so that the ratios and the mean of six the engine computes are exact.
One == 720
MaxScore == 720
DefaultWarn == 180
DefaultSlow == 288
DefaultRequireApproval == 432
DefaultHalt == 576

\* Values a caller configures a threshold with.
ThresholdGrid == {0, 180, 288, 432, 576, 720}
\* The scores the policy is asked to resolve: every threshold of the grid and
\* the scores next to it.
Scores == {s \in 0..MaxScore : \E t \in ThresholdGrid : s - t \in {-1, 0, 1}}
\* An optional number: <<>> is undefined (or null), <<x>> is the number x.
Optional(S) == {<<>>} \cup {<<x>> : x \in S}

\* a ?? b
Coalesce(a, b) == IF a = <<>> THEN b ELSE a[1]

\* The constructor: every threshold left out takes its default.
EngineThresholds(partial) ==
    [ warn |-> Coalesce(partial.warn, DefaultWarn),
      slow |-> Coalesce(partial.slow, DefaultSlow),
      requireApproval |-> Coalesce(partial.requireApproval, DefaultRequireApproval),
      halt |-> Coalesce(partial.halt, DefaultHalt) ]

NoThresholds == [warn |-> <<>>, slow |-> <<>>, requireApproval |-> <<>>, halt |-> <<>>]

\* A policy whose comparisons are exclusive.
resolveActionExclusive(th, s) ==
    IF s > th.halt THEN [action |-> "HALT", threshold |-> <<th.halt>>]
    ELSE IF s > th.requireApproval
    THEN [action |-> "REQUIRE_APPROVAL", threshold |-> <<th.requireApproval>>]
    ELSE IF s > th.slow THEN [action |-> "SLOW", threshold |-> <<th.slow>>]
    ELSE IF s > th.warn THEN [action |-> "WARN", threshold |-> <<th.warn>>]
    ELSE [action |-> "NONE", threshold |-> <<>>]

\* A policy that tests the slow tier before the approval tier.
resolveActionSlowFirst(th, s) ==
    IF s >= th.halt THEN [action |-> "HALT", threshold |-> <<th.halt>>]
    ELSE IF s >= th.slow THEN [action |-> "SLOW", threshold |-> <<th.slow>>]
    ELSE IF s >= th.requireApproval
    THEN [action |-> "REQUIRE_APPROVAL", threshold |-> <<th.requireApproval>>]
    ELSE IF s >= th.warn THEN [action |-> "WARN", threshold |-> <<th.warn>>]
    ELSE [action |-> "NONE", threshold |-> <<>>]

\* resolveAction(score) of an engine configured with th.
resolveAction(th, s) ==
    IF s >= th.halt THEN [action |-> "HALT", threshold |-> <<th.halt>>]
    ELSE IF s >= th.requireApproval
    THEN [action |-> "REQUIRE_APPROVAL", threshold |-> <<th.requireApproval>>]
    ELSE IF s >= th.slow THEN [action |-> "SLOW", threshold |-> <<th.slow>>]
    ELSE IF s >= th.warn THEN [action |-> "WARN", threshold |-> <<th.warn>>]
    ELSE [action |-> "NONE", threshold |-> <<>>]

\* ---- the deviation score
Abs(x) == IF x < 0 THEN -x ELSE x
Min(a, b) == IF a <= b THEN a ELSE b
Max(a, b) == IF a >= b THEN a ELSE b
RECURSIVE Sum(_)
Sum(q) == IF q = <<>> THEN 0 ELSE q[1] + Sum(Tail(q))

RiskNames == {"intentDeviationRisk", "scopeDriftRisk", "apiNoveltyRisk",
              "sensitiveDataExposureRisk", "cooperativeInstabilityRisk",
              "dataVolumeRisk"}

\* 0.15, 0.15, 0.15, 0.2, 0.15, 0.25
defaultPredictedVector ==
    [ intentDeviationRisk |-> 108,
      scopeDriftRisk |-> 108,
      apiNoveltyRisk |-> 108,
      sensitiveDataExposureRisk |-> 144,
      cooperativeInstabilityRisk |-> 108,
      dataVolumeRisk |-> 180 ]

\* No vector has been taken yet.
NoVector == [n \in RiskNames |-> -1]

\* A scorer whose clamp has Math.max and Math.min the wrong way round.
computeDeviationScoreSwappedClamp(p, l) ==
    LET deltas == << Abs(p.intentDeviationRisk - l.intentDeviationRisk),
                     Abs(p.scopeDriftRisk - l.scopeDriftRisk),
                     Abs(p.apiNoveltyRisk - l.apiNoveltyRisk),
                     Abs(p.sensitiveDataExposureRisk - l.sensitiveDataExposureRisk),
                     Abs(p.cooperativeInstabilityRisk - l.cooperativeInstabilityRisk),
                     Abs(p.dataVolumeRisk - l.dataVolumeRisk) >>
        meanDelta == Sum(deltas) \div Len(deltas)
    IN  Max(One, Min(0, meanDelta))

\* computeDeviationScore(predicted, live). Risks are multiples of 6 units
\* (1/120), so the division by the six deltas is exact.
computeDeviationScore(p, l) ==
    LET deltas == << Abs(p.intentDeviationRisk - l.intentDeviationRisk),
                     Abs(p.scopeDriftRisk - l.scopeDriftRisk),
                     Abs(p.apiNoveltyRisk - l.apiNoveltyRisk),
                     Abs(p.sensitiveDataExposureRisk - l.sensitiveDataExposureRisk),
                     Abs(p.cooperativeInstabilityRisk - l.cooperativeInstabilityRisk),
                     Abs(p.dataVolumeRisk - l.dataVolumeRisk) >>
        meanDelta == Sum(deltas) \div Len(deltas)
    IN  Max(0, Min(One, meanDelta))

\* No score has been resolved yet.
NoDecision == [action |-> "UNSET", threshold |-> <<>>]

\* evaluate resolves the action for a deviation score.
Resolve(s) ==
    /\ score' = s
    /\ decision' = resolveAction(thresholds, s)
    /\ UNCHANGED <<thresholds, scorerVars, orchVars>>

\* ---- the live behaviour vector
\* A string is the sequence of its characters; an optional field is <<>>
\* when undefined and <<x>> when it holds x.
UpperCase == <<"A", "B", "C", "D", "E", "F", "G", "H", "I", "J", "K", "L", "M", "N", "O", "P", "Q", "R", "S", "T", "U", "V", "W", "X", "Y", "Z">>
LowerCase == <<"a", "b", "c", "d", "e", "f", "g", "h", "i", "j", "k", "l", "m", "n", "o", "p", "q", "r", "s", "t", "u", "v", "w", "x", "y", "z">>
toLowerCase(s) ==
    [i \in 1..Len(s) |->
        IF \E k \in 1..Len(UpperCase) : UpperCase[k] = s[i]
        THEN LowerCase[CHOOSE k \in 1..Len(UpperCase) : UpperCase[k] = s[i]]
        ELSE s[i]]

\* s.includes(word)
includes(s, word) ==
    \E i \in 1..(Len(s) - Len(word) + 1) : SubSeq(s, i, i + Len(word) - 1) = word

\* new Set(s.split(/\s+/).filter(token => token.length > 3))
LongTokens(s) ==
    {t \in {SubSeq(s, i, j) : i \in 1..Len(s), j \in 1..Len(s)} :
        /\ Len(t) > 3
        /\ \A k \in 1..Len(t) : t[k] # " "
        /\ \E i \in 1..Len(s) :
              /\ SubSeq(s, i, i + Len(t) - 1) = t
              /\ (i = 1 \/ s[i - 1] = " ")
              /\ (i + Len(t) - 1 = Len(s) \/ s[i + Len(t)] = " ")}

intentSimilarity(observed, declared) ==
    LET observedTokens == LongTokens(observed)
        declaredTokens == LongTokens(declared)
    IN  IF observedTokens = {} \/ declaredTokens = {}
        THEN 0
        ELSE (One * Cardinality(observedTokens \cap declaredTokens))
                 \div Cardinality(declaredTokens)

highImpactIntentWords ==
    { <<"d", "e", "l", "e", "t", "e">>,
      <<"d", "r", "o", "p">>,
      <<"e", "x", "f", "i", "l", "t", "r", "a", "t", "e">>,
      <<"d", "i", "s", "a", "b", "l", "e">>,
      <<"o", "v", "e", "r", "r", "i", "d", "e">>,
      <<"s", "h", "u", "t", "d", "o", "w", "n">> }

\* value || fallback, for an optional array, string or number
OrElse(opt, fallback) == IF opt = <<>> THEN fallback ELSE opt[1]

normalize(value) == Max(0, Min(One, value))

\* A derivation that scores a missing observed intent like any other.
intentDeviationRiskUnguarded(observedIntent, declaredIntent) ==
    IF intentSimilarity(observedIntent, declaredIntent) >= One \div 4
    THEN 0
    ELSE IF \E word \in highImpactIntentWords : includes(observedIntent, word)
    THEN One
    ELSE (65 * One) \div 100

\* 0 without an observed intent or with a quarter of the declared tokens
\* observed, else 1 on a high-impact word and 0.65 otherwise.
intentDeviationRisk(observedIntent, declaredIntent) ==
    IF observedIntent = <<>>
    THEN 0
    ELSE IF intentSimilarity(observedIntent, declaredIntent) >= One \div 4
    THEN 0
    ELSE IF \E word \in highImpactIntentWords : includes(observedIntent, word)
    THEN One
    ELSE (65 * One) \div 100

\* used.filter(x => !allowed.includes(x)).length / used.length, or 0 when
\* nothing was used
driftRisk(used, allowed) ==
    LET unexpected == SelectSeq(used, LAMBDA x : \A i \in 1..Len(allowed) : allowed[i] # x)
    IN  IF Len(used) = 0 THEN 0 ELSE normalize((One * Len(unexpected)) \div Len(used))

\* The record counts of the accesses, a missing count being 0.
RECURSIVE recordCounts(_)
recordCounts(accesses) ==
    IF accesses = <<>> THEN 0
    ELSE OrElse(Head(accesses).recordCount, 0) + recordCounts(Tail(accesses))

IsRead(access) == access.operation = "read"
IsSensitiveRead(access) ==
    access.operation = "read" /\ access.sensitivity \in {"medium", "high"}
stepReads(step) == recordCounts(SelectSeq(OrElse(step.dataAccess, <<>>), IsRead))
stepSensitiveReads(step) ==
    recordCounts(SelectSeq(OrElse(step.dataAccess, <<>>), IsSensitiveRead))

\* What one cooperative signal adds: its stability deficit and, when it has
\* a conflict score other than 0, its conflict excess.
instabilityValue(signal, policy) ==
    LET stabilityDeficit ==
            IF signal.stabilityScore < policy.minCooperativeStability
            THEN policy.minCooperativeStability - signal.stabilityScore
            ELSE 0
        conflictExcess ==
            IF OrElse(signal.conflictScore, 0) # 0
               /\ OrElse(signal.conflictScore, 0) > policy.maxCooperativeConflict
            THEN OrElse(signal.conflictScore, 0) - policy.maxCooperativeConflict
            ELSE 0
    IN  normalize(stabilityDeficit + conflictExcess)

cooperativeInstabilityRisk(step, policy) ==
    LET signals == OrElse(step.cooperativeSignals, <<>>)
        instabilityValues == [i \in 1..Len(signals) |-> instabilityValue(signals[i], policy)]
    IN  IF Len(signals) > 0
        THEN normalize(Sum(instabilityValues) \div Len(instabilityValues))
        ELSE 0

deriveLiveBehaviorVector(context, step, policy) ==
    [ intentDeviationRisk |->
          normalize(intentDeviationRisk(toLowerCase(OrElse(step.observedIntent, <<>>)),
                                        toLowerCase(context.intent))),
      scopeDriftRisk |->
          driftRisk(OrElse(step.authorityScopeUsed, <<>>), policy.declaredAuthorityScope),
      apiNoveltyRisk |->
          driftRisk(OrElse(step.apiCalls, <<>>), policy.allowedApis),
      sensitiveDataExposureRisk |->
          IF stepReads(step) = 0 THEN 0
          ELSE normalize((One * stepSensitiveReads(step)) \div stepReads(step)),
      cooperativeInstabilityRisk |-> cooperativeInstabilityRisk(step, policy),
      dataVolumeRisk |->
          normalize((One * stepReads(step)) \div Max(1, policy.maxRecordsPerStep)) ]

\* evaluate(context, step, policy)
Evaluate ==
    /\ decision = NoDecision
    /\ request # <<>>
    /\ LET r == request[1]
       IN  /\ predicted' = OrElse(r.context.predictedBehaviorVector, defaultPredictedVector)
           /\ live' = deriveLiveBehaviorVector(r.context, r.step, r.policy)
    /\ score' = computeDeviationScore(predicted', live')
    /\ decision' = resolveAction(thresholds, score')
    /\ UNCHANGED <<thresholds, request, orchVars>>

\* evaluate from the two vectors on: the score, then the action for it.
ComputeScore ==
    /\ decision = NoDecision
    /\ score' = computeDeviationScore(predicted, live)
    /\ decision' = resolveAction(thresholds, score')
    /\ UNCHANGED <<thresholds, scorerVars, orchVars>>

\* ---------------------------------------------------------- specifications
InitOrchestrator ==
    /\ clock = 0
    /\ pc = [c \in Calls |-> "idle"]
    /\ ctx = [c \in Calls |-> NoContext]
    /\ activeActions = <<>>
    /\ pending = [c \in Calls |-> 0]
    /\ published = [c \in Calls |-> <<>>]
    /\ statusLog = [c \in Calls |-> <<>>]
    /\ stageLog = [c \in Calls |-> <<>>]
    /\ auditSeen = [c \in Calls |-> <<>>]
    /\ dropped = {}
    /\ violationEvents = 0

Init ==
    /\ InitOrchestrator
    /\ thresholds = EngineThresholds(NoThresholds)
    /\ score = 0
    /\ decision = NoDecision
    /\ request = <<>>
    /\ predicted = NoVector
    /\ live = NoVector

Next ==
    \/ \E c \in Calls, invalidResult \in BOOLEAN : Coordinate(c, invalidResult)
    \/ \E c \in Calls, outcome \in {"pass", "fail", "throw"} : PreExecutionReturn(c, outcome)
    \/ \E c \in Calls, v \in MonitorViolations : InProcessDetect(c, v)
    \/ \E c \in Calls, outcome \in {"continue", "suspend", "throw"} : InProcessReturn(c, outcome)
    \/ \E c \in Calls : ExecutionDone(c)
    \/ \E c \in Calls, outcome \in {"ok", "throw"} : RemediationReturn(c, outcome)
    \/ \E c \in Calls : CoordinateReturn(c)
    \/ \E a \in ActionIds, v \in MonitorViolations : PublishViolation(a, v)
    \/ \E c \in Calls : InterventionDone(c)
    \/ Tick

Spec == Init /\ [][Next]_vars

\* The orchestrator under the scheduling of the event loop: time passes, and
\* every promise a call awaits (a stage, the execution timer, the remediation
\* call) settles, after which the call runs on to its next await.
Proceed(c) ==
    \/ \E outcome \in {"pass", "fail", "throw"} : PreExecutionReturn(c, outcome)
    \/ \E outcome \in {"continue", "suspend", "throw"} : InProcessReturn(c, outcome)
    \/ ExecutionDone(c)
    \/ \E outcome \in {"ok", "throw"} : RemediationReturn(c, outcome)
    \/ CoordinateReturn(c)

Fairness == WF_vars(Tick) /\ \A c \in Calls : WF_vars(Proceed(c))

SpecLive == Init /\ [][Next]_vars /\ Fairness

\* The mitigation policy on its own: an engine built with any thresholds of
\* the grid resolves any score.
InitPolicy ==
    /\ InitOrchestrator
    /\ \E partial \in [{"warn", "slow", "requireApproval", "halt"} -> Optional(ThresholdGrid)] :
           thresholds = EngineThresholds(partial)
    /\ score = 0
    /\ decision = NoDecision
    /\ request = <<>>
    /\ predicted = NoVector
    /\ live = NoVector

NextPolicy == \E s \in Scores : Resolve(s)

SpecPolicy == InitPolicy /\ [][NextPolicy]_vars


\* The scorer on its own: an engine with the default thresholds scores a
\* predicted vector against a live vector. Each risk of the live vector is
\* 0, the default prediction for that risk, or 1; the predicted vector is
\* the default one or has every risk at 0 or 1.
LiveVectors ==
    {v \in [RiskNames -> {0, 108, 144, 180, One}] :
        \A n \in RiskNames : v[n] \in {0, defaultPredictedVector[n], One}}
PredictedVectors == [RiskNames -> {0, One}] \cup {defaultPredictedVector}

InitScorer ==
    /\ InitOrchestrator
    /\ thresholds = EngineThresholds(NoThresholds)
    /\ score = 0
    /\ decision = NoDecision
    /\ request = <<>>
    /\ predicted \in PredictedVectors
    /\ live \in LiveVectors

NextScorer == ComputeScore

SpecScorer == InitScorer /\ [][NextScorer]_vars


\* The engine on whole evaluations: an engine with the default thresholds
\* evaluates one step of an action against a monitor policy.
MaxItems == 2

RECURSIVE SeqsUpTo(_, _)
SeqsUpTo(S, n) ==
    IF n = 0 THEN {<<>>}
    ELSE SeqsUpTo(S, n - 1) \cup {Append(q, x) : q \in {p \in SeqsUpTo(S, n - 1) : Len(p) = n - 1}, x \in S}

DeclaredIntents == { <<"S", "y", "n", "c", " ", "u", "s", "e", "r", " ", "d", "a", "t", "a">> }
ObservedIntents ==
    { <<>>,
      <<"s", "y", "n", "c", " ", "d", "a", "t", "a">>,
      <<"r", "e", "a", "d", " ", "m", "a", "i", "l">>,
      <<"D", "r", "o", "p", " ", "l", "o", "g", "s">> }
DataAccesses ==
    { [operation |-> "read", recordCount |-> <<2>>, sensitivity |-> "low"],
      [operation |-> "read", recordCount |-> <<1>>, sensitivity |-> "high"],
      [operation |-> "write", recordCount |-> <<>>, sensitivity |-> "medium"] }
CooperativeSignals ==
    { [stabilityScore |-> 0, conflictScore |-> <<One>>],
      [stabilityScore |-> One, conflictScore |-> <<>>] }
Policies ==
    [ declaredAuthorityScope : {<<"orders:read">>},
      allowedApis : {<<"GET /orders">>},
      maxRecordsPerStep : {0, 2},
      minCooperativeStability : {One \div 2},
      maxCooperativeConflict : {One \div 2} ]
Steps ==
    [ observedIntent : Optional(ObservedIntents),
      authorityScopeUsed : Optional(SeqsUpTo({"orders:read", "orders:write"}, MaxItems)),
      apiCalls : Optional(SeqsUpTo({"GET /orders", "DELETE /orders"}, MaxItems)),
      dataAccess : Optional(SeqsUpTo(DataAccesses, MaxItems)),
      cooperativeSignals : Optional(SeqsUpTo(CooperativeSignals, MaxItems)) ]
Contexts ==
    [ intent : DeclaredIntents,
      predictedBehaviorVector : {<<>>} ]
Requests == [context : Contexts, step : Steps, policy : Policies]

InitEngine ==
    /\ InitOrchestrator
    /\ thresholds = EngineThresholds(NoThresholds)
    /\ score = 0
    /\ decision = NoDecision
    /\ \E r \in Requests : request = <<r>>
    /\ predicted = NoVector
    /\ live = NoVector

NextEngine == Evaluate

SpecEngine == InitEngine /\ [][NextEngine]_vars

\* ------------------------------------------------------ shared vocabulary
Last(q) == q[Len(q)]
Range(q) == {q[i] : i \in 1..Len(q)}
IsPrefix(p, q) == Len(p) <= Len(q) /\ \A i \in 1..Len(p) : p[i] = q[i]
Names(log) == [i \in 1..Len(log) |-> log[i].name]
PublishedNames(c) == Range(Names(published[c]))

\* The post-execution stage has run its verdict on c.
Audited(c) == Len(stageLog[c]) = 3
SawCritical(c) == \E i \in 1..Len(auditSeen[c]) : auditSeen[c][i].severity = "CRITICAL"

\* C1: when a coordinate call finishes, by returning a context or by the
\* error of a stage, the actionId it allocated is not in the active-action
\* set as the call ends.
C1_CleanupOnEveryExit ==
    [][\A c \in Calls :
          (pc[c] \notin Finished /\ pc'[c] \in Finished)
              => ctx'[c].actionId \notin DOMAIN activeActions']_vars

\* A call failed by the error of its remediation call, and its id is gone.
C1_Witness ==
    \E c \in Calls :
        /\ pc[c] = "failed"
        /\ stageLog[c] = <<"pre", "inproc", "post">>
        /\ ctx[c].actionId \notin DOMAIN activeActions

\* C2: in-flight calls have pairwise different actionIds, and from its
\* registration to its own cleanup each call finds its own context under its
\* actionId in the active-action set.
C2_OneLiveContextPerActionId ==
    \A c \in Calls :
        InFlight(c) =>
            /\ \A d \in Calls \ {c} : InFlight(d) => ctx[d].actionId # ctx[c].actionId
            /\ ctx[c].actionId \in DOMAIN activeActions
            /\ activeActions[ctx[c].actionId] = c

\* C3: the audit writes AUDIT_FAILED exactly when the violations it found
\* hold a CRITICAL one or params.invalidResult is set, and AUDIT_PASSED
\* otherwise; a context that held a CRITICAL violation at the audit is
\* returned with status AUDIT_FAILED.
C3_AuditVerdict ==
    \A c \in Calls :
        Audited(c) =>
            /\ Last(statusLog[c]) \in {"AUDIT_FAILED", "AUDIT_PASSED"}
            /\ Last(statusLog[c]) = "AUDIT_FAILED"
                   <=> (SawCritical(c) \/ ctx[c].invalidResult)
            /\ (pc[c] = "returned" /\ SawCritical(c)) => ctx[c].status = "AUDIT_FAILED"

\* A call without the invalid-result flag came back AUDIT_FAILED because of
\* a CRITICAL violation, while another audit met a HIGH violation only.
C3_Witness ==
    \E c \in Calls :
        /\ pc[c] = "returned"
        /\ ~ctx[c].invalidResult
        /\ SawCritical(c)
        /\ ctx[c].status = "AUDIT_FAILED"

AuditEventNames ==
    {"AUDIT_STARTED", "VIOLATION_DETECTED", "REMEDIATION_TRIGGERED",
     "REMEDIATION_COMPLETED", "AUDIT_COMPLETED"}
FailedAuditOrder ==
    <<"AUDIT_STARTED", "VIOLATION_DETECTED", "REMEDIATION_TRIGGERED",
      "REMEDIATION_COMPLETED", "AUDIT_COMPLETED">>
IsAuditEvent(name) == name \in AuditEventNames
AuditEvents(c) == SelectSeq(Names(published[c]), IsAuditEvent)

C5_FailedAuditEventOrder ==
    \A c \in Calls :
        /\ ctx[c].status = "AUDIT_FAILED" =>
              /\ IsPrefix(AuditEvents(c), FailedAuditOrder)
              /\ Len(AuditEvents(c)) >= 3
              /\ pc[c] = "remediating" => Len(AuditEvents(c)) = 3
              /\ pc[c] \in {"audited", "returned"} => AuditEvents(c) = FailedAuditOrder
        /\ \A i \in 1..Len(published[c]) :
              published[c][i].name = "REMEDIATION_COMPLETED" =>
                  \E j \in 1..(i - 1) : published[c][j].name = "REMEDIATION_TRIGGERED"

C5_Witness ==
    \E c \in Calls :
        /\ pc[c] = "returned"
        /\ ctx[c].status = "AUDIT_FAILED"
        /\ AuditEvents(c) = FailedAuditOrder

\* C6: the stages of a call run at most once each, in the order
\* pre-execution, in-process, post-execution; the status only moves along
\* PENDING -> COMPLETED -> {AUDIT_PASSED, AUDIT_FAILED} or from PENDING into
\* an early terminal state; a returned context is in a terminal state.
StatusSuccessors(s) ==
    IF s = "PENDING" THEN {"PRE_EXECUTION_FAILED", "SUSPENDED", "COMPLETED"}
    ELSE IF s = "COMPLETED" THEN {"AUDIT_PASSED", "AUDIT_FAILED"}
    ELSE {}
TerminalStates == {"PRE_EXECUTION_FAILED", "SUSPENDED", "AUDIT_PASSED", "AUDIT_FAILED"}

C6_StagesAndStatusMoveForward ==
    \A c \in Calls :
        /\ IsPrefix(stageLog[c], <<"pre", "inproc", "post">>)
        /\ statusLog[c] # <<>> => statusLog[c][1] = "PENDING"
        /\ \A i \in 1..(Len(statusLog[c]) - 1) :
               statusLog[c][i + 1] \in StatusSuccessors(statusLog[c][i])
        /\ statusLog[c] # <<>> => ctx[c].status = Last(statusLog[c])
        /\ pc[c] = "returned" => ctx[c].status \in TerminalStates

C6_Witness ==
    \E c \in Calls :
        /\ pc[c] = "returned"
        /\ stageLog[c] = <<"pre", "inproc", "post">>
        /\ statusLog[c] = <<"PENDING", "COMPLETED", "AUDIT_PASSED">>

\* C7: a call whose pre-execution stage left PRE_EXECUTION_FAILED returns
\* with only that stage invoked, and a call whose in-process stage left
\* SUSPENDED returns without the post-execution stage; neither is ever
\* COMPLETED nor has "action completed", "audit started" or "remediation
\* triggered" published.
LateEvents == {"ACTION_COMPLETED", "AUDIT_STARTED", "REMEDIATION_TRIGGERED"}

C7_EarlyExitSkipsLaterStages ==
    \A c \in Calls :
        /\ "PRE_EXECUTION_FAILED" \in Range(statusLog[c]) =>
              /\ pc[c] = "returned"
              /\ stageLog[c] = <<"pre">>
              /\ "COMPLETED" \notin Range(statusLog[c])
              /\ PublishedNames(c) \cap LateEvents = {}
        /\ "SUSPENDED" \in Range(statusLog[c]) =>
              /\ pc[c] = "returned"
              /\ stageLog[c] = <<"pre", "inproc">>
              /\ "COMPLETED" \notin Range(statusLog[c])
              /\ PublishedNames(c) \cap LateEvents = {}

C7_Witness ==
    \E c, d \in Calls :
        /\ pc[c] = "returned" /\ ctx[c].status = "SUSPENDED"
        /\ pc[d] = "returned" /\ ctx[d].status = "PRE_EXECUTION_FAILED"

\* C8: no context's violations hold two entries with the same violation id.
\* (The violations are also append-only: C8_AppendOnly.)
C8_NoDuplicateViolationIds ==
    \A c \in Calls :
        \A i, j \in 1..Len(ctx[c].violations) :
            i # j => ctx[c].violations[i].id # ctx[c].violations[j].id

\* Entries of violations are never removed nor reordered.
C8_AppendOnly ==
    [][\A c \in Calls : IsPrefix(ctx[c].violations, ctx'[c].violations)]_vars

\* C9: a violation event for an actionId that is not in the active-action
\* set changes no context (violations, interventions) and starts no
\* intervention.
AnyViolation == MonitorViolations \cup {postViolation(t) : t \in 0..MaxClock}

C9_UnknownActionIgnored ==
    \A a \in ActionIds \ DOMAIN activeActions :
        \A v \in AnyViolation :
            LET w == emitViolation(World, a, v)
            IN /\ w.ctx = ctx
               /\ w.pending = pending
               /\ w.activeActions = activeActions

\* An event for the id of a call that already returned was dropped, and the
\* context of that call holds nothing from it.
C9_Witness ==
    \E c \in Calls :
        /\ pc[c] = "returned"
        /\ ctx[c].actionId \in dropped
        /\ violationEvents > 0
        /\ \A d \in Calls : ctx[d].violations = <<>> /\ pending[d] = 0
                            /\ ctx[d].interventions = 0


\* ------------------------------------------------------ mitigation policy
ThresholdNames == {"warn", "slow", "requireApproval", "halt"}
Ascending(th) ==
    th.warn <= th.slow /\ th.slow <= th.requireApproval /\ th.requireApproval <= th.halt

\* The action of the tier a threshold belongs to, and the order of severity.
TierAction(n) ==
    CASE n = "warn" -> "WARN"
      [] n = "slow" -> "SLOW"
      [] n = "requireApproval" -> "REQUIRE_APPROVAL"
      [] n = "halt" -> "HALT"
Tier(a) ==
    CASE a = "NONE" -> 0
      [] a = "WARN" -> 1
      [] a = "SLOW" -> 2
      [] a = "REQUIRE_APPROVAL" -> 3
      [] a = "HALT" -> 4

\* The most severe tier configured with the same value as tier n.
TopTierAt(th, n) ==
    CHOOSE m \in ThresholdNames :
        /\ th[m] = th[n]
        /\ \A k \in ThresholdNames : th[k] = th[n] => Tier(TierAction(k)) <= Tier(TierAction(m))

Resolved == decision # NoDecision

\* C10 as stated: with ascending thresholds, a score equal to a threshold
\* resolves to the tier that owns the threshold, with that threshold
\* reported, and the score just below it resolves to a less severe action.
C10_ThresholdInclusive ==
    (Resolved /\ Ascending(thresholds)) =>
        \A n \in ThresholdNames :
            /\ score = thresholds[n] =>
                   /\ decision.action = TierAction(n)
                   /\ decision.threshold = <<thresholds[n]>>
            /\ score = thresholds[n] - 1 =>
                   Tier(decision.action) < Tier(TierAction(n))

\* C10 amended: with ascending thresholds, a score equal to a threshold
\* resolves to the most severe tier configured with that value, with that
\* threshold reported, and the score just below it resolves to an action
\* less severe than the tier that owns the threshold.
C10_ThresholdInclusiveUpToTies ==
    (Resolved /\ Ascending(thresholds)) =>
        \A n \in ThresholdNames :
            /\ score = thresholds[n] =>
                   /\ decision.action = TierAction(TopTierAt(thresholds, n))
                   /\ decision.threshold = <<thresholds[n]>>
            /\ score = thresholds[n] - 1 =>
                   Tier(decision.action) < Tier(TierAction(n))

\* Two tiers share a threshold and the score on it took the higher one,
\* under thresholds whose other tiers are distinct.
C10_Witness ==
    /\ Resolved
    /\ Ascending(thresholds)
    /\ thresholds.warn = thresholds.slow
    /\ thresholds.slow < thresholds.requireApproval
    /\ thresholds.requireApproval < thresholds.halt
    /\ score = thresholds.warn
    /\ decision.action = "SLOW"
    /\ decision.threshold = <<thresholds.warn>>

\* C11: the policy is monotone. Whatever thresholds the engine was built
\* with (the constructor accepts any four numbers, ascending or not), the
\* action resolved for a score is never more severe than the action any
\* higher score resolves to, in the order NONE < WARN < SLOW <
\* REQUIRE_APPROVAL < HALT.
C11_Monotone ==
    Resolved =>
        \A s2 \in Scores :
            score <= s2 =>
                Tier(decision.action) <= Tier(resolveAction(thresholds, s2).action)

\* Thresholds that are not ascending (the approval tier sits below the slow
\* tier), with a score between the two resolved to REQUIRE_APPROVAL and a
\* higher score on the slow threshold.
C11_Witness ==
    /\ Resolved
    /\ thresholds.requireApproval < thresholds.slow
    /\ thresholds.slow < thresholds.halt
    /\ thresholds.requireApproval <= score
    /\ score < thresholds.slow
    /\ decision.action = "REQUIRE_APPROVAL"
    /\ resolveAction(thresholds, thresholds.slow).action = "REQUIRE_APPROVAL"

\* Every risk of the vector lies in [0, 1].
InUnitRange(v) == \A n \in RiskNames : 0 <= v[n] /\ v[n] <= One

\* C12: for a predicted and a live vector whose six risks lie in [0, 1], the
\* deviation score lies in [0, 1]; the score of a vector against itself is
\* 0; and the default predicted vector against an identical live vector
\* resolves, in an engine with the default thresholds, to the action NONE.
C12_ScoreInUnitRange ==
    (Resolved /\ InUnitRange(predicted) /\ InUnitRange(live)) =>
        /\ 0 <= score /\ score <= One
        /\ predicted = live => score = 0
        /\ ( /\ predicted = defaultPredictedVector
             /\ live = defaultPredictedVector
             /\ thresholds = EngineThresholds(NoThresholds) )
               => decision.action = "NONE"

\* The default predicted vector was scored against an identical live vector.
C12_Witness ==
    /\ Resolved
    /\ predicted = defaultPredictedVector
    /\ live = defaultPredictedVector
    /\ score = 0
    /\ decision.action = "NONE"

\* The step of the evaluation.
EvaluatedStep == request[1].step

\* C13: deriveLiveBehaviorVector zeroes the risk of every input that is
\* missing or empty, whatever the policy: no authority scope used gives
\* scopeDriftRisk 0, no API call gives apiNoveltyRisk 0, a total read record
\* count of 0 gives sensitiveDataExposureRisk 0 and dataVolumeRisk 0, no
\* cooperative signal gives cooperativeInstabilityRisk 0, and an empty or
\* missing observed intent gives intentDeviationRisk 0.
C13_EmptyInputsScoreZero ==
    (Resolved /\ request # <<>>) =>
        /\ OrElse(EvaluatedStep.authorityScopeUsed, <<>>) = <<>> => live.scopeDriftRisk = 0
        /\ OrElse(EvaluatedStep.apiCalls, <<>>) = <<>> => live.apiNoveltyRisk = 0
        /\ stepReads(EvaluatedStep) = 0 =>
               /\ live.sensitiveDataExposureRisk = 0
               /\ live.dataVolumeRisk = 0
        /\ OrElse(EvaluatedStep.cooperativeSignals, <<>>) = <<>> =>
               live.cooperativeInstabilityRisk = 0
        /\ OrElse(EvaluatedStep.observedIntent, <<>>) = <<>> => live.intentDeviationRisk = 0

\* A step with no observed intent, no scope, no API call and no signal, whose
\* only data access is a write, was evaluated: all six risks are 0.
C13_Witness ==
    /\ Resolved
    /\ request # <<>>
    /\ EvaluatedStep.observedIntent = <<>>
    /\ EvaluatedStep.authorityScopeUsed = <<>>
    /\ EvaluatedStep.apiCalls = << <<>> >>
    /\ EvaluatedStep.dataAccess # <<>>
    /\ Len(EvaluatedStep.dataAccess[1]) = 1
    /\ stepReads(EvaluatedStep) = 0
    /\ EvaluatedStep.cooperativeSignals = <<>>
    /\ \A n \in RiskNames : live[n] = 0

\* C14: under the fairness of the event loop, every coordinate call that was
\* made eventually settles: it returns its context, or a stage or the
\* remediation call raised an error and the call ended with it. No call stays
\* in flight for ever.
C14_EveryCallSettles ==
    \A c \in Calls : (pc[c] # "idle") ~> (pc[c] \in Finished)

\* A call that went through the three stages and the remediation has
\* returned its context, and its entry is gone from the active set.
C14_Witness ==
    \E c \in Calls :
        /\ pc[c] = "returned"
        /\ ctx[c].status = "AUDIT_FAILED"
        /\ ctx[c].remediationReport
        /\ ctx[c].actionId \notin DOMAIN activeActions

\* How many events of the name were published with the context of c.
PublishedCount(c, name) ==
    Cardinality({i \in 1..Len(published[c]) : published[c][i].name = name})

\* C15: remediation is invoked exactly once for a call whose audit failed
\* and never for a call that is PENDING, COMPLETED, AUDIT_PASSED,
\* PRE_EXECUTION_FAILED or SUSPENDED; the violation event the audit publishes
\* before it does not start a second one. An invocation is the
\* "remediation triggered" event the auditor publishes as it calls the engine.
C15_RemediationOncePerFailedAudit ==
    \A c \in Calls :
        /\ PublishedCount(c, "REMEDIATION_TRIGGERED") =
               IF ctx[c].status = "AUDIT_FAILED" THEN 1 ELSE 0
        /\ PublishedCount(c, "REMEDIATION_COMPLETED") <=
               PublishedCount(c, "REMEDIATION_TRIGGERED")

\* A call returned AUDIT_FAILED after one remediation, the handler having
\* taken the audit's violation event for its context.
C15_Witness ==
    \E c \in Calls :
        /\ pc[c] = "returned"
        /\ ctx[c].status = "AUDIT_FAILED"
        /\ PublishedCount(c, "REMEDIATION_TRIGGERED") = 1
        /\ PublishedCount(c, "REMEDIATION_COMPLETED") = 1
        /\ PublishedCount(c, "VIOLATION_DETECTED") = 1
        /\ pending[c] + ctx[c].interventions >= 1

\* C16: a failed audit adds exactly one violation to the context it audits.
\* The audit pushes the violation it synthesizes and then publishes it; the
\* handler finds its id on the context and does not push it again, so the
\* violations after the audit are the violations before it followed by that
\* one violation.
C16_FailedAuditAddsOneViolation ==
    [][\A c \in Calls :
          (pc[c] = "exec" /\ pc'[c] = "remediating") =>
              /\ ctx'[c].violations = Append(ctx[c].violations, postViolation(clock))
              /\ Len(ctx'[c].violations) = Len(ctx[c].violations) + 1]_vars

\* An audit failed on a context that is the one registered under its
\* actionId: the handler ran on it and it holds one violation more than the
\* audit found.
C16_Witness ==
    \E c \in Calls :
        /\ pc[c] = "remediating"
        /\ ctx[c].actionId \in DOMAIN activeActions
        /\ activeActions[ctx[c].actionId] = c
        /\ pending[c] >= 1
        /\ auditSeen[c] # <<>>
        /\ Len(ctx[c].violations) = Len(auditSeen[c]) + 1

\* C17: a violation event published for the actionId of a call in flight
\* whose actionId is in the active-action set puts the violation on the
\* context of that call, changes the violations of no other context, and
\* starts one intervention on that context and none on another, also when
\* the violation id is already on the context.
C17_ViolationReachesOwnContext ==
    \A c \in Calls :
        (InFlight(c) /\ ctx[c].actionId \in DOMAIN activeActions) =>
            \A v \in AnyViolation :
                LET w == emitViolation(World, ctx[c].actionId, v)
                IN /\ v \in Range(w.ctx[c].violations)
                   /\ w.pending[c] = pending[c] + 1
                   /\ \A d \in Calls \ {c} :
                          /\ w.ctx[d].violations = ctx[d].violations
                          /\ w.pending[d] = pending[d]

\* C18: the violation handler writes no status. Whatever event it is given,
\* for any actionId and any violation, it leaves the status, the end time and
\* the remediation report of every context as they are, registers and
\* removes no context, publishes nothing, and changes the violations of a
\* context at most by appending the violation of the event.
C18_HandlerFrame ==
    \A a \in ActionIds :
        \A v \in AnyViolation :
            LET w == OnViolationDetected(World, a, v)
            IN /\ w.activeActions = activeActions
               /\ w.statusLog = statusLog
               /\ w.published = published
               /\ \A c \in Calls :
                      /\ w.ctx[c].status = ctx[c].status
                      /\ w.ctx[c].endTime = ctx[c].endTime
                      /\ w.ctx[c].remediationReport = ctx[c].remediationReport
                      /\ \/ w.ctx[c].violations = ctx[c].violations
                         \/ w.ctx[c].violations = Append(ctx[c].violations, v)

\* The handler took a CRITICAL violation for a context that is still
\* PENDING in the in-process stage: the violation is on the context, an
\* intervention is running, and the status and end time are untouched.
C18_Witness ==
    \E c \in Calls :
        /\ pc[c] = "inproc"
        /\ Len(ctx[c].violations) = 1
        /\ ctx[c].violations[1].severity = "CRITICAL"
        /\ pending[c] = 1
        /\ ctx[c].status = "PENDING"
        /\ statusLog[c] = <<"PENDING">>
        /\ ctx[c].endTime = -1
        /\ ~ctx[c].remediationReport

\* The positions at which a call awaits a stage or the remediation call.
AwaitingStage == {"pre", "inproc", "remediating", "audited"}

\* C19: nothing orders the completion of an intervention before the later
\* steps of the orchestrator. The handler returns to the publisher of the
\* event with the intervention started and not completed, and a call with
\* interventions running on its context can always take its next step; so
\* an intervention can still be running when its action has moved to a later
\* stage or has been returned and removed from the active set (C19_Witness).
C19_InterventionNotAwaited ==
    /\ \A a \in DOMAIN activeActions :
           \A v \in AnyViolation :
               LET c == activeActions[a]
                   w == OnViolationDetected(World, a, v)
               IN /\ w.pending[c] = pending[c] + 1
                  /\ w.ctx[c].interventions = ctx[c].interventions
    /\ \A c \in Calls :
           (pending[c] > 0 /\ pc[c] \in AwaitingStage) => ENABLED Proceed(c)

\* The in-process stage reported a violation of an action; the action was
\* then executed, audited and returned, its entry is gone from the active
\* set, and the intervention started for the violation is still running.
C19_Witness ==
    \E c \in Calls :
        /\ pc[c] = "returned"
        /\ stageLog[c] = <<"pre", "inproc", "post">>
        /\ ctx[c].status \in {"AUDIT_PASSED", "AUDIT_FAILED"}
        /\ ctx[c].actionId \notin DOMAIN activeActions
        /\ Len(ctx[c].violations) >= 1
        /\ ctx[c].violations[1] \in MonitorViolations
        /\ ctx[c].interventions = 0
        /\ pending[c] >= 1

\* C20: the end time is stamped on every exit but the pre-execution
\* failure. A context returned SUSPENDED, AUDIT_PASSED or AUDIT_FAILED has
\* its end time set, to a clock reading not before its start; a context
\* whose status has been COMPLETED has it set as well (it is stamped before
\* the status is written); a context returned PRE_EXECUTION_FAILED has none.
C20_EndTimeStamped ==
    \A c \in Calls :
        /\ "COMPLETED" \in Range(statusLog[c]) => ctx[c].endTime >= ctx[c].startTime
        /\ pc[c] = "returned" =>
               /\ ctx[c].status \in {"SUSPENDED", "AUDIT_PASSED", "AUDIT_FAILED"} =>
                      /\ ctx[c].endTime # -1
                      /\ ctx[c].endTime >= ctx[c].startTime
                      /\ ctx[c].endTime <= clock
               /\ ctx[c].status = "PRE_EXECUTION_FAILED" => ctx[c].endTime = -1

\* One call returned after its audit with its end time stamped, another
\* returned PRE_EXECUTION_FAILED without one.
C20_Witness ==
    \E c, d \in Calls :
        /\ pc[c] = "returned"
        /\ ctx[c].status \in {"AUDIT_PASSED", "AUDIT_FAILED"}
        /\ ctx[c].endTime > ctx[c].startTime
        /\ pc[d] = "returned"
        /\ ctx[d].status = "PRE_EXECUTION_FAILED"
        /\ ctx[d].endTime = -1

====
